---------------------------- MODULE Spec2Model ----------------------------
(***************************************************************************)
(* Model of src/types/sheet.rs of python-calamine: the materialized sheet  *)
(* (CalamineSheet over a calamine Range<Data>) with its shape getters and  *)
(* to_python export, and the lazy sheet reader (CalamineLazySheet over an  *)
(* xlsx or xlsb cell cursor).                                              *)
(*                                                                         *)
(* Spec      : the materialized sheet; one action per pymethod.            *)
(* LazySpec  : the lazy reader; one action per pymethod.                   *)
(***************************************************************************)
EXTENDS Integers, Sequences, FiniteSets, TLC

VARIABLES
    range,            \* CalamineSheet.range : the backing Range<Data>
    overflow_checks,  \* build profile: are integer overflow checks compiled in
    op,               \* the pymethod called last ("new" after construction)
    args,             \* its arguments
    ret,              \* what it returned
    reader,           \* CalamineLazySheet.reader : [variant, tape, pos, dims]
    lop,              \* the lazy pymethod called last
    results,          \* what each __next__ call returned, in call order
    dimsRet           \* what the last dimensions() call returned

vars == <<range, overflow_checks, op, args, ret, reader, lop, results, dimsRet>>

---------------------------------------------------------------------------
(* Bounds of the model *)

MaxRow == 3
MaxCol == 2
MaxNrows == 5
MaxTape == 3
MaxCalls == 4

(* The modulus of u32 arithmetic.  The code's integers are 32 bits wide;   *)
(* TLC's own integers are 32-bit signed and cannot hold 2^32, so the word  *)
(* is modelled on 16 bits: 0 - 1 wraps to the largest word and             *)
(* (largest word + 1) wraps to 0, as on 32 bits.                           *)
U32Mod == 65536

---------------------------------------------------------------------------
(* Option<T> *)

None == <<>>
Some(x) == <<x>>

Min(a, b) == IF a <= b THEN a ELSE b
Max(a, b) == IF a >= b THEN a ELSE b

(* Tuple order of Rust: lexicographic on (row, col) *)
TupleLe(a, b) == a[1] < b[1] \/ (a[1] = b[1] /\ a[2] <= b[2])

---------------------------------------------------------------------------
(* calamine Data and the exported CellValue *)

DataEmpty == [kind |-> "Empty"]
DataString(r, c) == [kind |-> "String", v |-> <<r, c>>]
DataInt(n) == [kind |-> "Int", v |-> n]

CellEmpty == [cell |-> "Empty"]

(* <&Data as Into<CellValue>>::into *)
CellValueFrom(d) ==
    CASE d.kind = "Empty" -> CellEmpty
      [] d.kind = "String" -> [cell |-> "Text", v |-> d.v]
      [] d.kind = "Int" -> [cell |-> "Integer", v |-> d.v]
      [] OTHER -> CellEmpty

---------------------------------------------------------------------------
(* calamine Range<T> as sheet.rs uses it: start, end, inner (row-major) *)

RangeIsEmpty(rg) == rg.inner = <<>>

RangeStart(rg) == IF RangeIsEmpty(rg) THEN None ELSE Some(rg.start)

RangeEnd(rg) == IF RangeIsEmpty(rg) THEN None ELSE Some(rg.end)

RangeHeight(rg) == IF RangeIsEmpty(rg) THEN 0 ELSE rg.end[1] - rg.start[1] + 1

RangeWidth(rg) == IF RangeIsEmpty(rg) THEN 0 ELSE rg.end[2] - rg.start[2] + 1

(* Range::empty() / Default *)
RangeEmpty == [start |-> <<0, 0>>, end |-> <<0, 0>>, inner |-> <<>>]

(* Range::rows(): the chunks of inner of width() cells; none for an empty range *)
RangeRows(rg) ==
    IF RangeIsEmpty(rg) THEN <<>>
    ELSE LET w == RangeWidth(rg)
         IN [i \in 1..(Len(rg.inner) \div w) |->
                [j \in 1..w |-> rg.inner[(i - 1) * w + j]]]

(* The cell of a range at absolute position (r, c); Data::default() outside *)
RangeGet(rg, r, c) ==
    IF /\ ~RangeIsEmpty(rg)
       /\ rg.start[1] <= r /\ r <= rg.end[1]
       /\ rg.start[2] <= c /\ c <= rg.end[2]
    THEN rg.inner[(r - rg.start[1]) * RangeWidth(rg) + (c - rg.start[2]) + 1]
    ELSE DataEmpty

(* Result<T, panic>: a computation that may unwind *)
Ok(v) == [ok |-> TRUE, v |-> v]
Panic(site) == [ok |-> FALSE, site |-> site]

(* Range::new: asserts start <= end, then allocates                        *)
(* ((end.0 - start.0 + 1) * (end.1 - start.1 + 1)) as usize default cells, *)
(* the product computed on u32: it wraps without overflow checks and       *)
(* panics with them.                                                       *)
RangeNew(start, end, checks) ==
    IF ~TupleLe(start, end) THEN Panic("invalid range bounds")
    ELSE LET dh == end[1] - start[1]
             dw == end[2] - start[2]
             h == (dh + 1) % U32Mod
             w == ((dw % U32Mod) + 1) % U32Mod
             overflows == dw < 0 \/ dh + 1 >= U32Mod \/ (dw % U32Mod) + 1 >= U32Mod
                          \/ h * w >= U32Mod
             size == (h * w) % U32Mod
         IN IF overflows /\ checks THEN Panic("arithmetic overflow in Range::new")
            ELSE Ok([start |-> start, end |-> end,
                     inner |-> [i \in 1..size |-> DataEmpty]])

(* Range::range(start, end): a new range of those bounds holding the cells *)
(* of rg where the two intersect, and default cells elsewhere.  The rows   *)
(* are copied chunk by chunk, and chunks(0) panics.                        *)
RangeRange(rg, start, end, checks) ==
    LET made == RangeNew(start, end, checks)
    IN IF ~made.ok THEN made
       ELSE LET other == made.v
                start_row == Max(rg.start[1], other.start[1])
                end_row == Min(rg.end[1], other.end[1])
                start_col == Max(rg.start[2], other.start[2])
                end_col == Min(rg.end[2], other.end[2])
                other_width == RangeWidth(other)
            IN IF start_row > end_row \/ start_col > end_col THEN Ok(other)
               ELSE IF RangeWidth(rg) = 0 \/ other_width = 0
                    THEN Panic("chunk size must be non-zero")
               ELSE Ok([other EXCEPT !.inner =
                        [i \in 1..Len(other.inner) |->
                            LET r == other.start[1] + ((i - 1) \div other_width)
                                c == other.start[2] + ((i - 1) % other_width)
                            IN IF /\ start_row <= r /\ r <= end_row
                                  /\ start_col <= c /\ c <= end_col
                               THEN RangeGet(rg, r, c)
                               ELSE DataEmpty]])

---------------------------------------------------------------------------
(* CalamineSheet *)

(* #[getter] height / width *)
height(rg) == RangeHeight(rg)
width(rg) == RangeWidth(rg)

(* #[getter] total_height / total_width: end().unwrap_or_default().0 / .1 *)
total_height(rg) == IF RangeEnd(rg) = None THEN 0 ELSE RangeEnd(rg)[1][1]
total_width(rg) == IF RangeEnd(rg) = None THEN 0 ELSE RangeEnd(rg)[1][2]

(* to_python: the row count when nrows is None *)
DefaultNrows(rg) == IF RangeEnd(rg) = None THEN 0 ELSE RangeEnd(rg)[1][1] + 1

(* Mutant of ExportsBacking: the test of the start coordinate is left out *)
ExportsBackingSkipOnly(rg, skip_empty_area) == skip_empty_area

(* to_python: is the backing range exported as it is (the first Arc::clone) *)
ExportsBacking(rg, skip_empty_area) ==
    skip_empty_area \/ Some(<<0, 0>>) = RangeStart(rg)

(* to_python: the row bound of the sub-view,                               *)
(* if nrows > end.0 { end.0 } else { nrows - 1 } on u32                    *)
RowBound(nrows, end, checks) ==
    IF nrows > end[1] THEN Ok(end[1])
    ELSE IF nrows >= 1 THEN Ok(nrows - 1)
    ELSE IF checks THEN Panic("attempt to subtract with overflow")
    ELSE Ok((nrows - 1) % U32Mod)

(* Mutant of ExportView: end().unwrap_or_default() instead of if let Some(end) *)
ExportViewUnwrapEnd(rg, skip_empty_area, nrows, checks) ==
    IF ExportsBacking(rg, skip_empty_area) THEN Ok(rg)
    ELSE LET end == IF RangeEnd(rg) # None THEN RangeEnd(rg)[1] ELSE <<0, 0>>
             bound == RowBound(nrows, end, checks)
         IN IF ~bound.ok THEN bound
            ELSE RangeRange(rg, <<0, 0>>, <<bound.v, end[2]>>, checks)

(* to_python: the range that is exported *)
ExportView(rg, skip_empty_area, nrows, checks) ==
    IF ExportsBacking(rg, skip_empty_area) THEN Ok(rg)
    ELSE IF RangeEnd(rg) # None
    THEN LET end == RangeEnd(rg)[1]
             bound == RowBound(nrows, end, checks)
         IN IF ~bound.ok THEN bound
            ELSE RangeRange(rg, <<0, 0>>, <<bound.v, end[2]>>, checks)
    ELSE Ok(rg)

(* Mutant of TakeRows: the take(nrows) is left out *)
TakeRowsAll(view, nrows) ==
    LET rows == RangeRows(view)
    IN [i \in 1..Len(rows) |->
           [j \in 1..Len(rows[i]) |-> CellValueFrom(rows[i][j])]]

(* range.rows().take(nrows).map(row -> cells as CellValue) *)
TakeRows(view, nrows) ==
    LET rows == RangeRows(view)
    IN [i \in 1..Min(nrows, Len(rows)) |->
           [j \in 1..Len(rows[i]) |-> CellValueFrom(rows[i][j])]]

(* to_python(skip_empty_area, nrows) *)
to_python(rg, skip_empty_area, nrowsOpt, checks) ==
    LET nrows == IF nrowsOpt # None THEN nrowsOpt[1] ELSE DefaultNrows(rg)
        view == ExportView(rg, skip_empty_area, nrows, checks)
    IN IF view.ok
       THEN [status |-> "ok", rows |-> TakeRows(view.v, nrows), view |-> view.v]
       ELSE [status |-> "panic", site |-> view.site]

---------------------------------------------------------------------------
(* The sheets a workbook loader hands to CalamineSheet::new *)

Fills == {"dense", "sparse"}

Fill(fill, r, c) ==
    IF fill = "dense" THEN DataString(r, c)
    ELSE IF (r + c) % 2 = 0 THEN DataInt(10 * r + c) ELSE DataEmpty

MakeRange(start, end, fill) ==
    LET w == end[2] - start[2] + 1
        h == end[1] - start[1] + 1
    IN [start |-> start, end |-> end,
        inner |-> [i \in 1..(h * w) |->
                      Fill(fill, start[1] + ((i - 1) \div w), start[2] + ((i - 1) % w))]]

Coords == (0..MaxRow) \X (0..MaxCol)

(* start <= end in both coordinates, or the empty range *)
Boxes == {b \in Coords \X Coords : b[1][1] <= b[2][1] /\ b[1][2] <= b[2][2]}

Sheets == {RangeEmpty} \cup {MakeRange(b[1], b[2], f) : b \in Boxes, f \in Fills}

LazyIdle == [variant |-> "Xlsx", tape |-> <<>>, pos |-> 1, dims |-> <<<<0, 0>>, <<0, 0>>>>]

(* CalamineSheet::new *)
Init ==
    /\ range \in Sheets
    /\ overflow_checks \in BOOLEAN
    /\ op = "new"
    /\ args = <<>>
    /\ ret = <<>>
    /\ reader = LazyIdle
    /\ lop = "none"
    /\ results = <<>>
    /\ dimsRet = None

SheetCall(name, a, r) ==
    /\ op' = name
    /\ args' = a
    /\ ret' = r
    /\ UNCHANGED <<range, overflow_checks, reader, lop, results, dimsRet>>

Height == SheetCall("height", <<>>, height(range))

Width == SheetCall("width", <<>>, width(range))

TotalHeight == SheetCall("total_height", <<>>, total_height(range))

TotalWidth == SheetCall("total_width", <<>>, total_width(range))

Start == SheetCall("start", <<>>, RangeStart(range))

End == SheetCall("end", <<>>, RangeEnd(range))

NrowsArgs == {None} \cup {Some(n) : n \in 0..MaxNrows}

ToPython ==
    \E skip_empty_area \in BOOLEAN, nrows \in NrowsArgs :
        SheetCall("to_python",
                  [skip_empty_area |-> skip_empty_area, nrows |-> nrows],
                  to_python(range, skip_empty_area, nrows, overflow_checks))

Next ==
    \/ Height
    \/ Width
    \/ TotalHeight
    \/ TotalWidth
    \/ Start
    \/ End
    \/ ToPython

Spec == Init /\ [][Next]_vars

---------------------------------------------------------------------------
(* The lazy sheet reader *)

Variants == {"Xlsx", "Xlsb"}

(* The records of a sheet's cell stream as the format cursor meets them:   *)
(* a cell, a record the cursor cannot decode, the end of the sheet data.   *)
RecCell(r, c, d) == [kind |-> "cell", pos |-> <<r, c>>, v |-> d]
RecCorrupt == [kind |-> "corrupt"]
RecEnd == [kind |-> "end"]

Records == {RecCell(0, 0, DataInt(1)), RecCell(1, 0, DataString(1, 0)), RecCorrupt, RecEnd}

RECURSIVE Tapes(_)
Tapes(n) ==
    IF n = 0 THEN {<<>>}
    ELSE LET shorter == Tapes(n - 1)
         IN shorter \cup {Append(t, r) : t \in {u \in shorter : Len(u) = n - 1}, r \in Records}

DeclaredDims == {<<<<0, 0>>, <<0, 0>>>>, <<<<0, 0>>, <<MaxRow, MaxCol>>>>}

ResOk(v) == [tag |-> "Ok", v |-> v]
ResErr(e) == [tag |-> "Err", e |-> e]

(* XlsxCellReader::next_cell / XlsbCellsReader::next_cell: read on from the *)
(* current position; a cell is Ok(Some), the end of the sheet data is      *)
(* Ok(None), an undecodable record or the end of the bytes is Err.  The    *)
(* cursor keeps no terminal flag: each call reads the record that follows. *)
CursorNextCell(rd) ==
    IF rd.pos > Len(rd.tape) THEN ResErr("eof")
    ELSE LET rec == rd.tape[rd.pos]
         IN CASE rec.kind = "cell" -> ResOk(Some([pos |-> rec.pos, value |-> rec.v]))
              [] rec.kind = "end" -> ResOk(None)
              [] OTHER -> ResErr("malformed")

CursorAdvance(rd) ==
    IF rd.pos > Len(rd.tape) THEN rd ELSE [rd EXCEPT !.pos = rd.pos + 1]

(* CalamineLazyReader::next_cell: dispatch on the variant, map_err to      *)
(* Error::Xlsb / Error::Xlsx                                               *)
next_cell(rd) ==
    LET r == CursorNextCell(rd)
    IN IF r.tag = "Err"
       THEN IF rd.variant = "Xlsb" THEN ResErr([from |-> "Xlsb", e |-> r.e])
            ELSE ResErr([from |-> "Xlsx", e |-> r.e])
       ELSE r

(* CalamineLazyReader::dimensions: Dimensions::from(reader.dimensions()) *)
dimensions(rd) == [start |-> rd.dims[1], end |-> rd.dims[2]]

(* LazyCell::from(calamine::Cell<DataRef>) *)
LazyCellFrom(c) == [row |-> c.pos[1], col |-> c.pos[2], value |-> CellValueFrom(c.value)]

PyCell(c) == [py |-> "cell", cell |-> c]
PyStopIteration == [py |-> "StopIteration"]
PyCalamineError == [py |-> "CalamineError", msg |-> "some error"]

(* Mutant of NextResult: a reader error ends the iteration silently *)
NextResultSwallowsErrors(r) ==
    IF r.tag = "Ok" /\ r.v # None THEN PyCell(LazyCellFrom(r.v[1])) ELSE PyStopIteration

(* CalamineLazySheet::__next__: what the caller gets for a reader result *)
NextResult(r) ==
    IF r.tag = "Ok"
    THEN IF r.v # None THEN PyCell(LazyCellFrom(r.v[1])) ELSE PyStopIteration
    ELSE PyCalamineError

SheetIdle ==
    /\ range = RangeEmpty
    /\ overflow_checks = FALSE
    /\ op = "none"
    /\ args = <<>>
    /\ ret = <<>>

(* CalamineLazySheet::new *)
LazyInit ==
    /\ SheetIdle
    /\ reader \in [variant : Variants, tape : Tapes(MaxTape), pos : {1}, dims : DeclaredDims]
    /\ lop = "new"
    /\ results = <<>>
    /\ dimsRet = None

(* __next__ *)
LazyNext ==
    /\ Len(results) < MaxCalls
    /\ results' = Append(results, NextResult(next_cell(reader)))
    /\ reader' = CursorAdvance(reader)
    /\ lop' = "__next__"
    /\ UNCHANGED <<range, overflow_checks, op, args, ret, dimsRet>>

(* dimensions() *)
LazyDimensions ==
    /\ dimsRet' = Some(dimensions(reader))
    /\ lop' = "dimensions"
    /\ UNCHANGED <<range, overflow_checks, op, args, ret, reader, results>>

(* __iter__: the sheet itself *)
LazyIter ==
    /\ lop' = "__iter__"
    /\ UNCHANGED <<range, overflow_checks, op, args, ret, reader, results, dimsRet>>

LazyStep ==
    \/ LazyNext
    \/ LazyDimensions
    \/ LazyIter

LazySpec == LazyInit /\ [][LazyStep]_vars

---------------------------------------------------------------------------
(* Properties of the materialized sheet (under Spec) *)

Exported == op = "to_python"

HasDimensions == RangeStart(range) # None /\ RangeEnd(range) # None

OffOrigin == HasDimensions /\ range.start # <<0, 0>>

(* The row count asked for: nrows, or end.row + 1 (0 without dimensions) *)
AskedRows ==
    IF args.nrows # None THEN args.nrows[1]
    ELSE IF HasDimensions THEN range.end[1] + 1 ELSE 0

(* The rows a to_python call handed back: none when it unwound *)
RowsDelivered == IF ret.status = "ok" THEN ret.rows ELSE <<>>

(* C1: total_height() is 1 + end.row and total_width() is 1 + end.col when *)
(* the sheet has dimensions, and both are 0 when it has none.              *)
C1_TotalIsOnePlusEnd ==
    /\ op = "total_height" =>
          ret = IF HasDimensions THEN 1 + range.end[1] ELSE 0
    /\ op = "total_width" =>
          ret = IF HasDimensions THEN 1 + range.end[2] ELSE 0

(* What the getters do return: the index of end itself *)
C1_TotalIsEndIndex ==
    /\ op = "total_height" => ret = IF HasDimensions THEN range.end[1] ELSE 0
    /\ op = "total_width" => ret = IF HasDimensions THEN range.end[2] ELSE 0

(* C2: height() <= total_height() and width() <= total_width() for every   *)
(* sheet, the populated extents being end - start + 1.                     *)
C2_ExtentWithinTotal ==
    /\ op = "height" => ret <= total_height(range)
    /\ op = "width" => ret <= total_width(range)
    /\ op = "total_height" => height(range) <= ret
    /\ op = "total_width" => width(range) <= ret

(* C3 as stated: whenever export returns, the number of rows equals        *)
(* row_limit when given and end.row + 1 (0 without dimensions) otherwise,  *)
(* for both values of skip_empty_area and any start row.                   *)
C3_RowCountIsAsked ==
    (Exported /\ ret.status = "ok") => Len(ret.rows) = AskedRows

(* The height of the range a to_python call exports: the backing range's   *)
(* when skip_empty_area holds, the start is (0,0) or there are no          *)
(* dimensions; end.row + 1 for the view taken from the origin.             *)
ExportedHeight ==
    IF args.skip_empty_area \/ ~HasDimensions \/ range.start = <<0, 0>>
    THEN IF HasDimensions THEN range.end[1] - range.start[1] + 1 ELSE 0
    ELSE range.end[1] + 1

(* C3 amended: the number of rows export hands back is the smaller of the  *)
(* row count asked for and the height of the exported range.               *)
C3_RowCountIsMin ==
    Exported => Len(RowsDelivered) = Min(AskedRows, ExportedHeight)

C3_Witness ==
    /\ Exported /\ ret.status = "ok"
    /\ range.start = <<1, 0>> /\ range.end = <<2, 1>>
    /\ args.skip_empty_area /\ args.nrows = Some(MaxNrows)
    /\ Len(ret.rows) = 2

(* C4: off the origin, export(skip_empty_area = false, row_limit) returns  *)
(* a view anchored at (0,0): min(row_limit, end.row + 1) rows of           *)
(* end.col + 1 cells each, Empty before start.row and before start.col.    *)
C4_Applies == Exported /\ OffOrigin /\ ~args.skip_empty_area /\ args.nrows # None

C4_ViewShape ==
    /\ Len(ret.rows) = Min(args.nrows[1], range.end[1] + 1)
    /\ \A i \in 1..Len(ret.rows) :
          /\ Len(ret.rows[i]) = range.end[2] + 1
          /\ \A j \in 1..Len(ret.rows[i]) :
                IF i - 1 < range.start[1] \/ j - 1 < range.start[2]
                THEN ret.rows[i][j] = CellEmpty
                ELSE ret.rows[i][j] = CellValueFrom(RangeGet(range, i - 1, j - 1))

(* C4: whenever it applies, the call returns and the rows have that shape *)
C4_OriginAnchoredView ==
    C4_Applies => (ret.status = "ok" /\ C4_ViewShape)

(* The same for a row_limit of at least 1, where the code does as C4 says  *)
C4_OriginAnchoredViewPositiveLimit ==
    (C4_Applies /\ args.nrows[1] >= 1) => (ret.status = "ok" /\ C4_ViewShape)

(* The example of C4: start=(1,0), end=(3,1), row_limit=2 *)
C4_Example ==
    /\ C4_Applies /\ ret.status = "ok"
    /\ range.start = <<1, 0>> /\ range.end = <<3, 1>> /\ args.nrows = Some(2)
    /\ Len(ret.rows) = 2
    /\ ret.rows[1] = <<CellEmpty, CellEmpty>>
    /\ ret.rows[2] = <<CellValueFrom(range.inner[1]), CellValueFrom(range.inner[2])>>
    /\ ret.rows[2] # <<CellEmpty, CellEmpty>>

(* C5: for a sheet whose start is (0,0), export(true, r) and               *)
(* export(false, r) return the same rows, for every r given or omitted.    *)
C5_SkipFlagIrrelevantAtOrigin ==
    (Exported /\ RangeStart(range) = Some(<<0, 0>>)) =>
        LET other == to_python(range, ~args.skip_empty_area, args.nrows, overflow_checks)
        IN /\ ret.status = "ok"
           /\ other.status = "ok"
           /\ ret.rows = other.rows

C5_Witness ==
    /\ Exported /\ RangeStart(range) = Some(<<0, 0>>)
    /\ ~args.skip_empty_area /\ args.nrows = Some(0)
    /\ range.end = <<2, 1>>
    /\ ret.status = "ok"

(* C6: an empty sheet has height, width, total_height and total_width 0    *)
(* and exports no rows, whatever skip_empty_area and row_limit are.        *)
C6_EmptySheet ==
    ~HasDimensions =>
        /\ op \in {"height", "width", "total_height", "total_width"} => ret = 0
        /\ Exported => (ret.status = "ok" /\ ret.rows = <<>>)

C6_Witness ==
    /\ ~HasDimensions /\ Exported
    /\ ~args.skip_empty_area /\ args.nrows = Some(2)
    /\ ret.status = "ok" /\ ret.rows = <<>>

(* C10: row_limit - 1 never underflows: off the origin,                    *)
(* export(skip_empty_area = false, row_limit = 0) completes and returns no *)
(* rows, the sub-view's row bound staying within 0..end.row.               *)
C10_NoUnderflow ==
    (C4_Applies /\ args.nrows = Some(0)) =>
        /\ ret.status = "ok"
        /\ ret.rows = <<>>
        /\ ret.view.end[1] \in 0..range.end[1]

---------------------------------------------------------------------------
(* Properties of the lazy sheet reader (under LazySpec) *)

Calls == 1..Len(results)

(* The record the i-th __next__ call met, "eof" past the last one *)
Met(i) == IF i <= Len(reader.tape) THEN reader.tape[i].kind ELSE "eof"

(* C7: once __next__ has returned end-of-sequence, every later __next__    *)
(* returns end-of-sequence too.                                            *)
C7_ExhaustionIsPermanent ==
    \A i \in Calls, j \in Calls :
        (i < j /\ results[i] = PyStopIteration) => results[j] = PyStopIteration

(* C8: after __next__ has raised the read error once, no later __next__    *)
(* delivers a cell, and no second read error is raised.                    *)
C8_FailStop ==
    \A i \in Calls, j \in Calls :
        (i < j /\ results[i] = PyCalamineError) =>
            (results[j].py # "cell" /\ results[j] # PyCalamineError)

(* The part of C8 about cells alone *)
C8_NoCellAfterError ==
    \A i \in Calls, j \in Calls :
        (i < j /\ results[i] = PyCalamineError) => results[j].py # "cell"

(* C9: __next__ hands on what the cursor produced, in order: each cell as  *)
(* that cell, a failure as the read error and never as end-of-sequence,    *)
(* the end of the data as end-of-sequence and never as an error.           *)
C9_FaithfulSignals ==
    \A i \in Calls :
        CASE Met(i) = "cell" ->
                /\ results[i].py = "cell"
                /\ <<results[i].cell.row, results[i].cell.col>> = reader.tape[i].pos
          [] Met(i) = "end" -> results[i] = PyStopIteration
          [] OTHER -> results[i] = PyCalamineError

C9_Witness ==
    /\ Len(results) = 3
    /\ Met(1) = "cell" /\ Met(2) = "cell" /\ Met(3) = "corrupt"
    /\ reader.tape[1] # reader.tape[2]
    /\ reader.variant = "Xlsb"
    /\ results[1].py = "cell" /\ results[2].py = "cell"
    /\ results[3] = PyCalamineError

=============================================================================
